---- MODULE Spec2Model ----
(***************************************************************************)
(* Model of homework.py: the fitness-tracker training hierarchy            *)
(* (Training, Running, SportsWalking, Swimming), InfoMessage,              *)
(* read_package, main and the __main__ loop.                               *)
(*                                                                         *)
(* Numbers.  The program computes with Python ints and floats.  The model  *)
(* computes the same expressions, in the same order of operations, over    *)
(* exact rationals <<n, d>> (d > 0, lowest terms); the decimal literals of *)
(* the source are the rationals they denote (0.65 = 13/20).  Binary        *)
(* rounding of the last bit of a float is not modelled: every value the    *)
(* model states is the real value of the program's expression, which the   *)
(* program's float differs from by rounding error only.                    *)
(*                                                                         *)
(* Text.  The module is ASCII; the Cyrillic literals of the source are     *)
(* transliterated.                                                         *)
(***************************************************************************)
EXTENDS Integers, Sequences, FiniteSets, TLC

VARIABLES
    packages,   \* __main__: the list of (workout_type, data) pairs
    i,          \* __main__: position of the for loop in packages (1-based)
    pc,         \* __main__: "for" | "main" | "print" | "exit" | "traceback"
    training,   \* __main__: the instance read_package returned last
    info,       \* main: the InfoMessage show_training_info returned
    stdout,     \* the lines print has written, oldest first
    exception,  \* the uncaught exception that ended the program, or None
    request,    \* API session: the constructor call made, or None
    obj,        \* API session: the instance under test, or None
    result,     \* API session: outcome of the constructor call
    calls       \* API session: the method calls made on obj, with outcomes

vars == <<packages, i, pc, training, info, stdout, exception,
          request, obj, result, calls>>

progVars == <<packages, i, pc, training, info, stdout, exception>>
apiVars == <<request, obj, result, calls>>

(***************************************************************************)
(* Bounds of the model.                                                    *)
(***************************************************************************)
MaxPackages == 3
MaxCalls == 3

(***************************************************************************)
(* Exact rational arithmetic standing for Python's numeric operators.      *)
(***************************************************************************)
Abs(x) == IF x < 0 THEN -x ELSE x

RECURSIVE GCD(_, _)
GCD(a, b) == IF b = 0 THEN a ELSE GCD(b, a % b)

\* n/d in lowest terms with a positive denominator (d # 0).
Rat(n, d) ==
    LET s == IF d < 0 THEN -1 ELSE 1
        g == GCD(Abs(n), Abs(d))
    IN  <<(s * n) \div g, (s * d) \div g>>

Num(n) == <<n, 1>>

\* Sums and products cancel common factors before they multiply, so that the
\* intermediate integers stay as small as the result allows.
RAdd(a, b) ==
    LET g == GCD(a[2], b[2])
    IN  Rat(a[1] * (b[2] \div g) + b[1] * (a[2] \div g), (a[2] \div g) * b[2])

RNeg(a) == <<-a[1], a[2]>>
RSub(a, b) == RAdd(a, RNeg(b))

RMul(a, b) ==
    LET g1 == GCD(Abs(a[1]), b[2])
        g2 == GCD(Abs(b[1]), a[2])
    IN  <<(a[1] \div g1) * (b[1] \div g2), (a[2] \div g2) * (b[2] \div g1)>>

\* a / b, for b # 0
RDiv(a, b) ==
    RMul(a, IF b[1] < 0 THEN <<-b[2], -b[1]>> ELSE <<b[2], b[1]>>)

\* a // b, for b # 0: Python's floor division, the floor of the quotient
RFloorDiv(a, b) == LET q == RDiv(a, b) IN Num(q[1] \div q[2])

RLess(a, b) == RSub(a, b)[1] < 0
RLeq(a, b) == RSub(a, b)[1] <= 0

(***************************************************************************)
(* Outcomes of a call: a returned value or a raised exception.             *)
(***************************************************************************)
None == [cls |-> "None"]
Return(v) == [exc |-> "none", val |-> v]
Raise(e) == [exc |-> e]
RaiseMsg(e, m) == [exc |-> e, msg |-> m]
Returned(o) == o.exc = "none"

(***************************************************************************)
(* Class constants.                                                        *)
(***************************************************************************)
M_IN_KM == 1000
MIN_IN_HOUR == 60
Running_COEFF_1 == 18
Running_COEFF_2 == 20
SportsWalking_COEFF_1 == Rat(35, 1000)
SportsWalking_COEFF_2 == Rat(29, 1000)
Swimming_COEFF_1 == Rat(11, 10)
Swimming_COEFF_2 == 2

\* self.LEN_STEP: the class attribute as attribute lookup resolves it
LEN_STEP(self) ==
    IF self.cls = "Swimming" THEN Rat(138, 100) ELSE Rat(65, 100)

(***************************************************************************)
(* Constructors.                                                           *)
(***************************************************************************)
Training_init(cls, action, duration, weight) ==
    [cls |-> cls, action |-> action, duration |-> duration, weight |-> weight]

SportsWalking_init(action, duration, weight, height) ==
    [cls |-> "SportsWalking", action |-> action, duration |-> duration,
     weight |-> weight, height |-> height]

\* Mutant: the two pool attributes bound in the wrong order.
Swimming_init_swapped(action, duration, weight, length_pool, count_pool) ==
    [cls |-> "Swimming", action |-> action, duration |-> duration,
     weight |-> weight, length_pool |-> count_pool,
     count_pool |-> length_pool]

Swimming_init(action, duration, weight, length_pool, count_pool) ==
    [cls |-> "Swimming", action |-> action, duration |-> duration,
     weight |-> weight, length_pool |-> length_pool,
     count_pool |-> count_pool]

\* cls(*args): positional binding; a wrong number of arguments is a TypeError
New(cls, args) ==
    CASE cls \in {"Training", "Running"} ->
            IF Len(args) = 3
            THEN Return(Training_init(cls, args[1], args[2], args[3]))
            ELSE Raise("TypeError")
      [] cls = "SportsWalking" ->
            IF Len(args) = 4
            THEN Return(SportsWalking_init(args[1], args[2], args[3], args[4]))
            ELSE Raise("TypeError")
      [] cls = "Swimming" ->
            IF Len(args) = 5
            THEN Return(Swimming_init(args[1], args[2], args[3], args[4],
                                      args[5]))
            ELSE Raise("TypeError")

(***************************************************************************)
(* Methods.  get_distance never raises and is a value; the others are      *)
(* outcomes.  The unqualified names do the method resolution of the class  *)
(* of self.                                                                *)
(***************************************************************************)
\* Mutant: a fencepost error, one step fewer than the actions counted.
Training_get_distance_fencepost(self) ==
    RDiv(RMul(Num(self.action - 1), LEN_STEP(self)), Num(M_IN_KM))

Training_get_distance(self) ==
    RDiv(RMul(Num(self.action), LEN_STEP(self)), Num(M_IN_KM))

Swimming_get_distance(self) ==
    RDiv(RMul(Num(self.action), LEN_STEP(self)), Num(M_IN_KM))

get_distance(self) ==
    IF self.cls = "Swimming" THEN Swimming_get_distance(self)
    ELSE Training_get_distance(self)

Training_get_mean_speed(self) ==
    IF self.duration = 0 THEN Raise("ZeroDivisionError")
    ELSE Return(RDiv(get_distance(self), Num(self.duration)))

\* Mutant: the override forgotten, the speed taken from the stroke distance.
Swimming_get_mean_speed_inherited(self) == Training_get_mean_speed(self)

Swimming_get_mean_speed(self) ==
    LET distance_in_meters == Num(self.length_pool * self.count_pool)
        distance_in_km == RDiv(distance_in_meters, Num(M_IN_KM))
    IN  IF self.duration = 0 THEN Raise("ZeroDivisionError")
        ELSE Return(RDiv(distance_in_km, Num(self.duration)))

get_mean_speed(self) ==
    IF self.cls = "Swimming" THEN Swimming_get_mean_speed(self)
    ELSE Training_get_mean_speed(self)

Training_get_spent_calories(self) == Raise("NotImplementedError")

\* Mutant: the duration left in hours.
Running_get_spent_calories_hours(self) ==
    LET speed == get_mean_speed(self) IN
    IF ~Returned(speed) THEN speed
    ELSE
      LET speed_and_coeff ==
              RMul(RSub(RMul(Num(Running_COEFF_1), speed.val),
                        Num(Running_COEFF_2)),
                   Num(self.weight))
      IN  Return(RMul(RDiv(speed_and_coeff, Num(M_IN_KM)),
                      Num(self.duration)))

Running_get_spent_calories(self) ==
    LET speed == get_mean_speed(self) IN
    IF ~Returned(speed) THEN speed
    ELSE
      LET speed_and_coeff ==
              RMul(RSub(RMul(Num(Running_COEFF_1), speed.val),
                        Num(Running_COEFF_2)),
                   Num(self.weight))
          dur_in_minutes == RMul(Num(self.duration), Num(MIN_IN_HOUR))
      IN  Return(RMul(RDiv(speed_and_coeff, Num(M_IN_KM)), dur_in_minutes))

\* Mutant: true division where the source floors.
SportsWalking_get_spent_calories_truediv(self) ==
    LET weight_and_coeff_1 == RMul(SportsWalking_COEFF_1, Num(self.weight))
        weight_and_coeff_2 == RMul(SportsWalking_COEFF_2, Num(self.weight))
        speed == get_mean_speed(self)
    IN  IF ~Returned(speed) THEN speed
        ELSE IF self.height = 0 THEN Raise("ZeroDivisionError")
        ELSE
          LET speed_and_weight ==
                  RDiv(RMul(speed.val, speed.val), Num(self.height))
              duration_in_minutes ==
                  RMul(Num(self.duration), Num(MIN_IN_HOUR))
          IN  Return(RMul(RAdd(weight_and_coeff_1,
                               RMul(speed_and_weight, weight_and_coeff_2)),
                          duration_in_minutes))

SportsWalking_get_spent_calories(self) ==
    LET weight_and_coeff_1 == RMul(SportsWalking_COEFF_1, Num(self.weight))
        weight_and_coeff_2 == RMul(SportsWalking_COEFF_2, Num(self.weight))
        speed == get_mean_speed(self)
    IN  IF ~Returned(speed) THEN speed
        ELSE IF self.height = 0 THEN Raise("ZeroDivisionError")
        ELSE
          LET speed_and_weight ==
                  RFloorDiv(RMul(speed.val, speed.val), Num(self.height))
              duration_in_minutes ==
                  RMul(Num(self.duration), Num(MIN_IN_HOUR))
          IN  Return(RMul(RAdd(weight_and_coeff_1,
                               RMul(speed_and_weight, weight_and_coeff_2)),
                          duration_in_minutes))

Swimming_get_spent_calories(self) ==
    LET speed == get_mean_speed(self) IN
    IF ~Returned(speed) THEN speed
    ELSE
      LET speed_and_coeff == RAdd(speed.val, Swimming_COEFF_1)
      IN  Return(RMul(RMul(speed_and_coeff, Num(Swimming_COEFF_2)),
                      Num(self.weight)))

\* Mutant: SportsWalking without its override, so the base method answers.
get_spent_calories_missing_override(self) ==
    CASE self.cls = "Running" -> Running_get_spent_calories(self)
      [] self.cls = "Swimming" -> Swimming_get_spent_calories(self)
      [] OTHER -> Training_get_spent_calories(self)

get_spent_calories(self) ==
    CASE self.cls = "Running" -> Running_get_spent_calories(self)
      [] self.cls = "SportsWalking" -> SportsWalking_get_spent_calories(self)
      [] self.cls = "Swimming" -> Swimming_get_spent_calories(self)
      [] OTHER -> Training_get_spent_calories(self)

\* The keyword arguments are evaluated in order; the first exception leaves.
show_training_info(self) ==
    LET speed == get_mean_speed(self) IN
    IF ~Returned(speed) THEN speed
    ELSE
      LET calories == get_spent_calories(self) IN
      IF ~Returned(calories) THEN calories
      ELSE Return([training_type |-> self.cls,
                   duration |-> Num(self.duration),
                   distance |-> get_distance(self),
                   speed |-> speed.val,
                   calories |-> calories.val])

(***************************************************************************)
(* InfoMessage.get_message: every number in the format {x:.3f}, the value  *)
(* rounded to thousandths (ties to even) with three decimals.              *)
(***************************************************************************)
Pad3(n) ==
    IF n < 10 THEN "00" \o ToString(n)
    ELSE IF n < 100 THEN "0" \o ToString(n)
    ELSE ToString(n)

Fmt3(x) ==
    LET a == Abs(x[1]) * 1000
        q == a \div x[2]
        r == a % x[2]
        m == IF 2 * r > x[2] \/ (2 * r = x[2] /\ q % 2 = 1) THEN q + 1 ELSE q
    IN  (IF x[1] < 0 THEN "-" ELSE "") \o ToString(m \div 1000) \o "."
        \o Pad3(m % 1000)

get_message(self) ==
    "Tip trenirovki: " \o self.training_type
    \o "; Dlitelnost: " \o Fmt3(self.duration)
    \o " ch.; Distanciya: " \o Fmt3(self.distance)
    \o " km; Sr. skorost: " \o Fmt3(self.speed)
    \o " km/ch; Potracheno kkal: " \o Fmt3(self.calories) \o "."

(***************************************************************************)
(* read_package: the fixed mapping, the one validation, the construction.  *)
(***************************************************************************)
training_name ==
    [code \in {"SWM", "RUN", "WLK"} |->
        CASE code = "SWM" -> "Swimming"
          [] code = "RUN" -> "Running"
          [] code = "WLK" -> "SportsWalking"]

ValueErrorMessage(workout_types) ==
    "Oshibka. Trenerovka " \o workout_types
    \o " ne naidena. Proverte tip trenirovki"

\* Mutant: the message built without interpolating the code.
read_package_message_without_code(workout_types, data_attr) ==
    IF workout_types \notin DOMAIN training_name
    THEN RaiseMsg("ValueError", ValueErrorMessage("{workout_types}"))
    ELSE New(training_name[workout_types], data_attr)

read_package(workout_types, data_attr) ==
    IF workout_types \notin DOMAIN training_name
    THEN RaiseMsg("ValueError", ValueErrorMessage(workout_types))
    ELSE New(training_name[workout_types], data_attr)

(***************************************************************************)
(* Inputs.  The readings are integers (data_attr: Sequence[int]).  The     *)
(* program's own list is ReferencePackages; the loop is modelled on every  *)
(* list of at most MaxPackages pairs drawn from LoopPairs, which holds the *)
(* three reference pairs, an unknown code, readings of the wrong length    *)
(* for a code and readings with a zero duration or height.                 *)
(***************************************************************************)
ReferencePackages ==
    << <<"SWM", <<720, 1, 80, 25, 40>> >>,
       <<"RUN", <<15000, 1, 75>> >>,
       <<"WLK", <<9000, 1, 75, 180>> >> >>

Codes == {"SWM", "RUN", "WLK", "XYZ"}
ApiCodes == Codes \cup {"swm", ""}

LoopData ==
    {<<720, 1, 80, 25, 40>>, <<15000, 1, 75>>, <<9000, 1, 75, 180>>,
     <<9000, 2, 75, 0>>, <<0, 0, 80>>}

LoopPairs == Codes \X LoopData

RECURSIVE SeqsUpTo(_, _)
SeqsUpTo(S, n) ==
    IF n = 0 THEN {<<>>}
    ELSE LET shorter == SeqsUpTo(S, n - 1)
         IN  shorter \cup {Append(s, x) : s \in shorter, x \in S}

Actions == {-720, 0, 720, 9000, 15000}
Durations == {0, 1, 2}
Weights == {75, 80}
Fourths == {-7, 0, 1, 25, 180}
Fifths == {0, 40}

ApiData ==
    {<<a, d, w>> : a \in Actions, d \in Durations, w \in Weights}
    \cup {<<a, d, w, h>> :
            a \in Actions, d \in Durations, w \in Weights, h \in Fourths}
    \cup {<<a, d, w, l, c>> :
            a \in Actions, d \in Durations, w \in Weights,
            l \in Fourths \ {-7}, c \in Fifths}

(***************************************************************************)
(* The program: the loop of __main__ over packages, with main inlined as   *)
(* its two statements.                                                     *)
(***************************************************************************)
Init ==
    /\ packages \in SeqsUpTo(LoopPairs, MaxPackages)
    /\ i = 1
    /\ pc = "for"
    /\ training = None
    /\ info = None
    /\ stdout = <<>>
    /\ exception = None
    /\ request = None
    /\ obj = None
    /\ result = None
    /\ calls = <<>>

\* Mutant: a failed dispatch is swallowed and the loop goes on to the next pair.
LoopReadPackage_swallow ==
    /\ pc = "for"
    /\ i <= Len(packages)
    /\ LET o == read_package(packages[i][1], packages[i][2]) IN
       IF Returned(o)
       THEN /\ training' = o.val
            /\ pc' = "main"
            /\ UNCHANGED <<i, exception>>
       ELSE /\ i' = i + 1
            /\ pc' = "for"
            /\ UNCHANGED <<training, exception>>
    /\ UNCHANGED <<packages, info, stdout>>
    /\ UNCHANGED apiVars

\* for workout_type, data in packages: training = read_package(...)
LoopReadPackage ==
    /\ pc = "for"
    /\ i <= Len(packages)
    /\ LET o == read_package(packages[i][1], packages[i][2]) IN
       IF Returned(o)
       THEN /\ training' = o.val
            /\ pc' = "main"
            /\ UNCHANGED exception
       ELSE /\ exception' = o
            /\ pc' = "traceback"
            /\ UNCHANGED training
    /\ UNCHANGED <<packages, i, info, stdout>>
    /\ UNCHANGED apiVars

\* the list is exhausted: the program ends normally
LoopExit ==
    /\ pc = "for"
    /\ i > Len(packages)
    /\ pc' = "exit"
    /\ UNCHANGED <<packages, i, training, info, stdout, exception>>
    /\ UNCHANGED apiVars

\* main: info = main_info.show_training_info()
MainShowTrainingInfo ==
    /\ pc = "main"
    /\ LET o == show_training_info(training) IN
       IF Returned(o)
       THEN /\ info' = o.val
            /\ pc' = "print"
            /\ UNCHANGED exception
       ELSE /\ exception' = o
            /\ pc' = "traceback"
            /\ UNCHANGED info
    /\ UNCHANGED <<packages, i, training, stdout>>
    /\ UNCHANGED apiVars

\* Mutant: the newest line put first.
MainPrint_prepend ==
    /\ pc = "print"
    /\ stdout' = <<get_message(info)>> \o stdout
    /\ info' = None
    /\ i' = i + 1
    /\ pc' = "for"
    /\ UNCHANGED <<packages, training, exception>>
    /\ UNCHANGED apiVars

\* main: print(info.get_message()); then the loop moves on
MainPrint ==
    /\ pc = "print"
    /\ stdout' = Append(stdout, get_message(info))
    /\ info' = None
    /\ i' = i + 1
    /\ pc' = "for"
    /\ UNCHANGED <<packages, training, exception>>
    /\ UNCHANGED apiVars

Next ==
    \/ LoopReadPackage
    \/ LoopExit
    \/ MainShowTrainingInfo
    \/ MainPrint

Spec == Init /\ [][Next]_vars

(***************************************************************************)
(* An API session: one instance is constructed, by read_package or as a    *)
(* base Training, and its methods are called in any order, at most         *)
(* MaxCalls times.                                                         *)
(***************************************************************************)
InitApi ==
    /\ packages = <<>>
    /\ i = 1
    /\ pc = "api"
    /\ training = None
    /\ info = None
    /\ stdout = <<>>
    /\ exception = None
    /\ request = None
    /\ obj = None
    /\ result = None
    /\ calls = <<>>

Constructed(o) ==
    /\ result' = o
    /\ obj' = IF Returned(o) THEN o.val ELSE None
    /\ calls' = <<>>

CallReadPackage ==
    /\ request = None
    /\ \E workout_types \in ApiCodes, data_attr \in ApiData :
          /\ request' = [fn |-> "read_package", code |-> workout_types,
                         args |-> data_attr]
          /\ Constructed(read_package(workout_types, data_attr))
    /\ UNCHANGED progVars

CallTraining ==
    /\ request = None
    /\ \E args \in ApiData :
          /\ request' = [fn |-> "Training", code |-> "", args |-> args]
          /\ Constructed(New("Training", args))
    /\ UNCHANGED progVars

\* A method call on obj: the outcome is recorded; none of the methods assigns
\* to an attribute of self, so obj is what it was.
CallGetDistance ==
    /\ obj # None
    /\ Len(calls) < MaxCalls
    /\ calls' = Append(calls, [method |-> "get_distance",
                               out |-> Return(get_distance(obj))])
    /\ obj' = obj
    /\ UNCHANGED <<request, result>>
    /\ UNCHANGED progVars

CallGetMeanSpeed ==
    /\ obj # None
    /\ Len(calls) < MaxCalls
    /\ calls' = Append(calls, [method |-> "get_mean_speed",
                               out |-> get_mean_speed(obj)])
    /\ obj' = obj
    /\ UNCHANGED <<request, result>>
    /\ UNCHANGED progVars

CallGetSpentCalories ==
    /\ obj # None
    /\ Len(calls) < MaxCalls
    /\ calls' = Append(calls, [method |-> "get_spent_calories",
                               out |-> get_spent_calories(obj)])
    /\ obj' = obj
    /\ UNCHANGED <<request, result>>
    /\ UNCHANGED progVars

\* Mutant: the summary computed after converting self.duration to minutes in
\* place.
CallShowTrainingInfo_mutating ==
    /\ obj # None
    /\ Len(calls) < MaxCalls
    /\ LET self == [obj EXCEPT !.duration = @ * MIN_IN_HOUR] IN
          /\ calls' = Append(calls, [method |-> "show_training_info",
                                     out |-> show_training_info(self)])
          /\ obj' = self
    /\ UNCHANGED <<request, result>>
    /\ UNCHANGED progVars

CallShowTrainingInfo ==
    /\ obj # None
    /\ Len(calls) < MaxCalls
    /\ calls' = Append(calls, [method |-> "show_training_info",
                               out |-> show_training_info(obj)])
    /\ obj' = obj
    /\ UNCHANGED <<request, result>>
    /\ UNCHANGED progVars

NextApi ==
    \/ CallReadPackage
    \/ CallTraining
    \/ CallGetDistance
    \/ CallGetMeanSpeed
    \/ CallGetSpentCalories
    \/ CallShowTrainingInfo

SpecApi == InitApi /\ [][NextApi]_vars

(***************************************************************************)
(* Properties.                                                             *)
(***************************************************************************)
KnownCodes == {"SWM", "RUN", "WLK"}

ByReadPackage == request # None /\ request.fn = "read_package"

\* The outcomes of the calls of a method made so far
Outs(method) ==
    {calls[k].out : k \in {j \in 1..Len(calls) : calls[j].method = method}}

\* C1: read_package with a code outside SWM, RUN, WLK raises ValueError with
\* the message that carries exactly that code and yields no instance; with
\* one of the three codes it does not raise ValueError.
C1_UnknownCodeRaisesValueError ==
    ByReadPackage =>
        IF request.code \in KnownCodes
        THEN result.exc # "ValueError"
        ELSE /\ result.exc = "ValueError"
             /\ result.msg = "Oshibka. Trenerovka " \o request.code
                             \o " ne naidena. Proverte tip trenirovki"
             /\ DOMAIN result = {"exc", "msg"}
             /\ obj = None

C1_Witness ==
    /\ ByReadPackage
    /\ request.code = "XYZ"
    /\ result.exc = "ValueError"

\* C2: read_package with a recognized code and readings of the matching
\* length (RUN 3, WLK 4, SWM 5) returns an instance of the class the mapping
\* assigns (SWM Swimming, RUN Running, WLK SportsWalking) whose attributes are
\* the readings in order: action, duration, weight, then height, or
\* length_pool and count_pool.
C2_PositionalBinding ==
    LET a == request.args IN
    /\ (ByReadPackage /\ request.code = "RUN" /\ Len(a) = 3) =>
          /\ Returned(result)
          /\ obj = result.val
          /\ obj = [cls |-> "Running", action |-> a[1], duration |-> a[2],
                    weight |-> a[3]]
    /\ (ByReadPackage /\ request.code = "WLK" /\ Len(a) = 4) =>
          /\ Returned(result)
          /\ obj = result.val
          /\ obj = [cls |-> "SportsWalking", action |-> a[1],
                    duration |-> a[2], weight |-> a[3], height |-> a[4]]
    /\ (ByReadPackage /\ request.code = "SWM" /\ Len(a) = 5) =>
          /\ Returned(result)
          /\ obj = result.val
          /\ obj = [cls |-> "Swimming", action |-> a[1], duration |-> a[2],
                    weight |-> a[3], length_pool |-> a[4],
                    count_pool |-> a[5]]

C2_Witness ==
    /\ ByReadPackage
    /\ request.code = "SWM"
    /\ request.args = <<720, 1, 80, 25, 40>>
    /\ obj # None
    /\ obj.length_pool = 25
    /\ obj.count_pool = 40

\* The positions of packages whose code read_package does not recognize
UnknownAt == {k \in 1..Len(packages) : packages[k][1] \notin KnownCodes}

FirstUnknown == CHOOSE k \in UnknownAt : \A j \in UnknownAt : k <= j

\* A pair whose code is recognized and whose readings fit the class: the
\* right number of them, a nonzero duration and, for walking, a nonzero height
WellFormed(p) ==
    /\ p[1] \in KnownCodes
    /\ Len(p[2]) = (CASE p[1] = "RUN" -> 3 [] p[1] = "WLK" -> 4
                      [] p[1] = "SWM" -> 5)
    /\ p[2][2] # 0
    /\ p[1] = "WLK" => p[2][4] # 0

\* The line main prints for a well-formed pair
LineOf(p) ==
    get_message(show_training_info(read_package(p[1], p[2]).val).val)

\* C3 as stated: when the program ends on an unrecognized code, no summary
\* line has been output, not even for the valid pairs before the failing one.
C3_NoLineAtAll ==
    (pc = "traceback" /\ exception.exc = "ValueError") => stdout = <<>>

\* C3: with an unrecognized code in the list, the program never dispatches a
\* pair after the first such pair, never ends normally and outputs lines only
\* for pairs before it; when it ends with the ValueError it is at that first
\* pair, and the lines output are exactly those of the pairs before it, one
\* each, in order.
C3_StopsAtFirstUnknown ==
    UnknownAt # {} =>
        /\ i <= FirstUnknown
        /\ pc # "exit"
        /\ Len(stdout) < FirstUnknown
        /\ (pc = "traceback" /\ exception.exc = "ValueError") =>
              /\ i = FirstUnknown
              /\ Len(stdout) = FirstUnknown - 1
              /\ \A k \in 1..Len(stdout) : stdout[k] = LineOf(packages[k])
              /\ exception.msg = "Oshibka. Trenerovka " \o packages[i][1]
                                 \o " ne naidena. Proverte tip trenirovki"

C3_Witness ==
    /\ pc = "traceback"
    /\ exception.exc = "ValueError"
    /\ Len(packages) > 1
    /\ i = 2
    /\ Len(stdout) = 1

\* C4: when every pair is recognized and well-formed, the program never
\* fails; a pair is dispatched only when the lines of all pairs before it are
\* out, so with the loop at pair i exactly i - 1 lines are out, the k-th
\* being the line of the k-th pair; at the normal end there is one line per
\* pair.
C4_OneLinePerPairInOrder ==
    (\A k \in 1..Len(packages) : WellFormed(packages[k])) =>
        /\ pc # "traceback"
        /\ exception = None
        /\ Len(stdout) = i - 1
        /\ \A k \in 1..Len(stdout) : stdout[k] = LineOf(packages[k])
        /\ pc \in {"main", "print"} =>
              /\ i <= Len(packages)
              /\ training = read_package(packages[i][1], packages[i][2]).val
        /\ pc = "exit" => Len(stdout) = Len(packages)

\* the program's own list, run to its end
C4_Witness ==
    /\ pc = "exit"
    /\ packages = ReferencePackages
    /\ \A k \in 1..Len(packages) : WellFormed(packages[k])
    /\ stdout =
          <<"Tip trenirovki: Swimming; Dlitelnost: 1.000 ch.; "
            \o "Distanciya: 0.994 km; Sr. skorost: 1.000 km/ch; "
            \o "Potracheno kkal: 336.000.",
            "Tip trenirovki: Running; Dlitelnost: 1.000 ch.; "
            \o "Distanciya: 9.750 km; Sr. skorost: 9.750 km/ch; "
            \o "Potracheno kkal: 699.750.",
            "Tip trenirovki: SportsWalking; Dlitelnost: 1.000 ch.; "
            \o "Distanciya: 5.850 km; Sr. skorost: 5.850 km/ch; "
            \o "Potracheno kkal: 157.500.">>

\* The instance read_package makes from the reference readings of a code
IsReference(code) ==
    /\ ByReadPackage
    /\ request.code = code
    /\ \E k \in 1..Len(ReferencePackages) :
          ReferencePackages[k] = <<code, request.args>>

\* C5 as stated: the summary of ("RUN", [15000, 1, 75]) has distance 9.75,
\* mean speed 9.75 and calories 665.8125.
C5_Calories665 ==
    IsReference("RUN") =>
        \A o \in Outs("show_training_info") :
            /\ Returned(o)
            /\ o.val.distance = Rat(975, 100)
            /\ o.val.speed = Rat(975, 100)
            /\ o.val.calories = Rat(6658125, 10000)

\* C5: the summary of ("RUN", [15000, 1, 75]) has distance 9.75, mean speed
\* 9.75 and calories 699.75, which is the value of
\* ((18 * speed - 20) * weight / 1000) * (duration * 60).
C5_RunScenario ==
    IsReference("RUN") =>
        \A o \in Outs("show_training_info") :
            /\ Returned(o)
            /\ o.val.training_type = "Running"
            /\ o.val.distance = Rat(975, 100)
            /\ o.val.speed = Rat(975, 100)
            /\ o.val.calories = Rat(69975, 100)
            /\ o.val.calories =
                  RMul(RDiv(RMul(RSub(RMul(Num(18), Rat(975, 100)), Num(20)),
                                 Num(75)),
                            Num(1000)),
                       RMul(Num(1), Num(60)))
            /\ Fmt3(o.val.calories) = "699.750"

C5_Witness ==
    /\ IsReference("RUN")
    /\ \E o \in Outs("show_training_info") : Returned(o)

\* floor(x) for a rational x, as the integer k with k <= x < k + 1
FloorOf(x) ==
    LET K == Abs(x[1]) \div x[2] + 1
    IN  CHOOSE k \in -K..K : k * x[2] <= x[1] /\ x[1] < (k + 1) * x[2]

\* The default mean speed, written out from the readings: action * 0.65 /
\* 1000 / duration
DefaultSpeed(self) ==
    RDiv(RDiv(RMul(Num(self.action), Rat(65, 100)), Num(1000)),
         Num(self.duration))

\* C6: for a walking workout whose calories are computed (duration and
\* height nonzero), calories = (0.035 * weight + floor(speed^2 / height) *
\* 0.029 * weight) * (duration * 60), the quotient floored to an integer
\* before it is multiplied; so when speed^2 < height, calories = 0.035 *
\* weight * duration * 60; ("WLK", [9000, 1, 75, 180]) gives distance 5.85,
\* speed 5.85 and calories 157.5.
C6_WalkingCalories ==
    /\ (obj # None /\ obj.cls = "SportsWalking") =>
          \A o \in Outs("get_spent_calories") :
              IF obj.duration = 0 \/ obj.height = 0
              THEN o = Raise("ZeroDivisionError")
              ELSE
                LET speed == DefaultSpeed(obj)
                    square == RMul(speed, speed)
                    k == FloorOf(RDiv(square, Num(obj.height)))
                    base == RMul(RMul(Rat(35, 1000), Num(obj.weight)),
                                 Num(obj.duration * 60))
                IN  /\ Returned(o)
                    /\ o.val =
                          RMul(RAdd(RMul(Rat(35, 1000), Num(obj.weight)),
                                    RMul(Num(k), RMul(Rat(29, 1000),
                                                      Num(obj.weight)))),
                               Num(obj.duration * 60))
                    /\ RLess(square, Num(obj.height)) => o.val = base
    /\ IsReference("WLK") =>
          \A o \in Outs("show_training_info") :
              /\ Returned(o)
              /\ o.val.distance = Rat(585, 100)
              /\ o.val.speed = Rat(585, 100)
              /\ o.val.calories = Rat(1575, 10)

\* a walking workout whose floored quotient is neither 0 nor the quotient
C6_Witness ==
    /\ obj # None
    /\ obj.cls = "SportsWalking"
    /\ obj.action = 9000
    /\ obj.duration = 1
    /\ obj.height = 25
    /\ \E o \in Outs("get_spent_calories") :
          /\ Returned(o)
          /\ o.val = RMul(RAdd(RMul(Rat(35, 1000), Num(obj.weight)),
                               RMul(Num(1), RMul(Rat(29, 1000),
                                                 Num(obj.weight)))),
                          Num(60))

\* C7: for a swimming workout, distance = action * 1.38 / 1000; mean speed,
\* when computed (duration nonzero), = (length_pool * count_pool / 1000) /
\* duration, whatever the action count and the distance are; calories =
\* (speed + 1.1) * 2 * weight; ("SWM", [720, 1, 80, 25, 40]) gives distance
\* 0.9936, speed 1.0 and calories 336.0.
C7_Swimming ==
    /\ (obj # None /\ obj.cls = "Swimming") =>
          LET pool == RDiv(RDiv(Num(obj.length_pool * obj.count_pool),
                                Num(1000)),
                           Num(obj.duration))
          IN  /\ \A o \in Outs("get_distance") :
                    /\ Returned(o)
                    /\ o.val = RDiv(RMul(Num(obj.action), Rat(138, 100)),
                                    Num(1000))
              /\ \A o \in Outs("get_mean_speed") :
                    IF obj.duration = 0 THEN o = Raise("ZeroDivisionError")
                    ELSE Returned(o) /\ o.val = pool
              /\ \A o \in Outs("get_spent_calories") :
                    IF obj.duration = 0 THEN o = Raise("ZeroDivisionError")
                    ELSE /\ Returned(o)
                         /\ o.val = RMul(RMul(RAdd(pool, Rat(11, 10)), Num(2)),
                                         Num(obj.weight))
              /\ \A o \in Outs("show_training_info") :
                    Returned(o) =>
                        /\ o.val.speed = pool
                        /\ o.val.distance =
                              RDiv(RMul(Num(obj.action), Rat(138, 100)),
                                   Num(1000))
    /\ IsReference("SWM") =>
          \A o \in Outs("show_training_info") :
              /\ Returned(o)
              /\ o.val.distance = Rat(9936, 10000)
              /\ o.val.speed = Num(1)
              /\ o.val.calories = Num(336)

\* a swimming workout whose pool speed differs from distance / duration
C7_Witness ==
    /\ IsReference("SWM")
    /\ \E o \in Outs("show_training_info") :
          /\ Returned(o)
          /\ o.val.speed # RDiv(o.val.distance, o.val.duration)

\* C8: for Running, SportsWalking and Swimming, get_distance of an instance
\* whose action count is >= 0 returns a value >= 0, whatever the other
\* readings are.
C8_DistanceNonNegative ==
    (/\ obj # None
     /\ obj.cls \in {"Running", "SportsWalking", "Swimming"}
     /\ obj.action >= 0) =>
        \A o \in Outs("get_distance") :
            /\ Returned(o)
            /\ o.val[1] >= 0
            /\ o.val[2] > 0
            /\ (obj.action = 0 <=> o.val[1] = 0)

C8_Witness ==
    /\ obj # None
    /\ obj.cls = "SportsWalking"
    /\ obj.action = 0
    /\ obj.duration = 0
    /\ obj.height = -7
    /\ Outs("get_distance") # {}

\* C9: the method calls leave the instance as the constructor made it, with
\* every attribute at the reading it was bound to, and a method called again
\* gives the outcome it gave before; so the summaries show_training_info
\* returned are all the same.
C9_RecordImmutable ==
    obj # None =>
        /\ Returned(result)
        /\ obj = result.val
        /\ obj.action = request.args[1]
        /\ obj.duration = request.args[2]
        /\ obj.weight = request.args[3]
        /\ obj.cls = "SportsWalking" => obj.height = request.args[4]
        /\ obj.cls = "Swimming" =>
              /\ obj.length_pool = request.args[4]
              /\ obj.count_pool = request.args[5]
        /\ \A j, k \in 1..Len(calls) :
              calls[j].method = calls[k].method => calls[j].out = calls[k].out

\* show_training_info returned a Summary twice
C9_Witness ==
    /\ obj # None
    /\ obj.cls = "Running"
    /\ Len(calls) > 1
    /\ calls[1].method = "show_training_info"
    /\ calls[2].method = "show_training_info"
    /\ Returned(calls[1].out)
    /\ Returned(calls[2].out)

\* C10: get_spent_calories of a base Training raises NotImplementedError,
\* so show_training_info of it raises and gives no Summary; on the three
\* concrete classes get_spent_calories never raises NotImplementedError and
\* returns a value whenever the duration and, for walking, the height are
\* nonzero.
C10_BaseNotImplemented ==
    obj # None =>
        IF obj.cls = "Training"
        THEN /\ \A o \in Outs("get_spent_calories") :
                    o = Raise("NotImplementedError")
             /\ \A o \in Outs("show_training_info") :
                    /\ ~Returned(o)
                    /\ obj.duration # 0 => o = Raise("NotImplementedError")
        ELSE /\ obj.cls \in {"Running", "SportsWalking", "Swimming"}
             /\ \A o \in Outs("get_spent_calories") :
                    /\ o.exc # "NotImplementedError"
                    /\ (/\ obj.duration # 0
                        /\ obj.cls = "SportsWalking" => obj.height # 0)
                          => Returned(o)
                    /\ ~Returned(o) => o = Raise("ZeroDivisionError")

C10_Witness ==
    /\ obj # None
    /\ obj.cls = "Training"
    /\ obj.duration # 0
    /\ Raise("NotImplementedError") \in Outs("get_spent_calories")
    /\ Raise("NotImplementedError") \in Outs("show_training_info")

====
